---- MODULE Spec2Model ----
(***************************************************************************)
(* The sosistab listener actor (lib/sosistab/src/listener.rs): the event   *)
(* loop that races received datagrams against reaped sessions, the         *)
(* handshake decode path (ClientHello / ClientResume), the session table,  *)
(* the per-session output poller and the drop hook.                        *)
(*                                                                         *)
(* The modules table, recfilter, crypt, protocol and session are used by   *)
(* listener.rs but are not part of the sources at hand; the definitions    *)
(* that stand for them follow the specification's description of them.     *)
(***************************************************************************)
EXTENDS Integers, Sequences, FiniteSets, TLC

VARIABLES
    actor,      \* the ListenerActor::run task: "running" | "panicked"
    by_token,   \* SessionTable: resume token -> session (its input sender and locked ShardedAddrs)
    by_addr,    \* SessionTable: remote address -> resume token
    recv_dead,  \* the send_dead / recv_dead channel: tokens waiting to be reaped
    accepted,   \* the accepted channel: sessions not yet taken by accept_session
    filter,     \* RECENT_FILTER: the buffers seen
    limiter,    \* fallthrough_limiter: address -> cells used of the quota
    eph,        \* number of ephemeral secrets (and token nonces) drawn from thread_rng
    issued,     \* the resume tokens of the ServerHello replies handed to send_to
    sessions,   \* every Session created, by creation order
    elapsed     \* the limiter's MonotonicClock in replenish periods (12 s), run by BurstSpec only

vars == <<actor, by_token, by_addr, recv_dead, accepted, filter, limiter,
          eph, issued, sessions, elapsed>>

----------------------------------------------------------------------------
(* Bounds of the model *)

\* sessions created by the listener
MaxSess == 2
\* ephemeral secrets drawn, i.e. ServerHello replies made
MaxEph == 2
\* distinct decryptable datagrams the network delivers
MaxSeen == 4
\* packets in the sessions' input and output channels and output pollers, all together
MaxQueued == 1
\* distinct decryptable datagrams the network delivers in FloodSpec
FloodSeen == 3
\* distinct handshake datagrams a peer of QueueSpec sends
SetupSeen == 2
\* packets the peer of BurstSpec sends in one replenish period (100 a minute)
PacketsPerPeriod == 20

\* remote socket addresses
Addrs == {"a1", "a2"}
\* shard ids (u8) the clients use
Shards == {0, 1}
\* ClientHello versions (u64, in decimal)
Versions == {"0", "1", "2", "3", "4", "99", "9223372036854775808"}

\* the peers of Spec: well-behaved clients at two addresses, on one shard; they are
\* paced (an address with a session sends once the limiter has replenished)
SpecPeers ==
    [addrs |-> Addrs, shards |-> {0}, versions |-> {"3"}, junk |-> FALSE, paced |-> TRUE]
\* the peers of FloodSpec: one address that sends anything at any rate
FloodPeers ==
    [addrs |-> {"a1"}, shards |-> Shards, versions |-> {"3", "4"}, junk |-> TRUE,
     paced |-> FALSE]
\* every peer the properties speak about
AllPeers ==
    [addrs |-> Addrs, shards |-> Shards, versions |-> Versions, junk |-> TRUE,
     paced |-> FALSE]

----------------------------------------------------------------------------
(* Program constants *)

\* Quota::per_minute(5): cells of the fallthrough limiter per address
FallthroughQuota == 5
\* smol::channel::bounded(1000) of session_input
SessionInputCap == 1000
\* smol::channel::bounded(1000) of session_output
SessionOutputCap == 1000

\* self.long_sk, and the listener's token_key (32 random bytes drawn once)
LongSk == <<"server_long_sk", 0>>
TokenKey == "token_key"
\* a token key that is not this listener's
OtherTokenKey == "other_token_key"

\* cookie.generate_c2s(): the candidate keys, current epoch first
C2SKeys == <<1, 2, 3>>
\* cookie.generate_s2c().next(): a key of the other direction, none of the c2s keys
S2CKey == 4

\* session_table.lookup(addr) is None (sessions are numbered from 1)
NoSess == 0
\* client::connect_udp: num_shards, and reset_interval in seconds
UdpShards == 8
UdpResetSecs == 20
\* client::connect_tcp: num_shards
TcpShards == 16

----------------------------------------------------------------------------
(* crypt, protocol: keys, frames, buffers *)

\* x25519 public key of a secret
PublicKey(sk) == <<"pk", sk>>

\* one x25519 product: the same value from either side
DiffieHellman(sk, pk) == {PublicKey(sk), pk}

\* crypt::triple_ecdh(my_long_sk, my_eph_sk, their_long_pk, their_eph_pk)
TripleEcdh(my_long_sk, my_eph_sk, their_long_pk, their_eph_pk) ==
    [ee |-> DiffieHellman(my_eph_sk, their_eph_pk),
     le |-> {DiffieHellman(my_long_sk, their_eph_pk),
             DiffieHellman(my_eph_sk, their_long_pk)}]

\* blake3::keyed_hash(crypt::UP_KEY | crypt::DN_KEY, sess_key)
KeyedHash(label, sess_key) == <<label, sess_key>>

\* the n-th StaticSecret::new(&mut thread_rng()) of the listener
EphSk(n) == <<"server_eph_sk", n>>

\* the client's key pairs
ClientLongSk == <<"client_long_sk", 0>>
ClientEphSk == <<"client_eph_sk", 0>>

ClientHello(version) ==
    [type |-> "ClientHello", long_pk |-> PublicKey(ClientLongSk),
     eph_pk |-> PublicKey(ClientEphSk), version |-> version]

\* the ClientHello of a client with the secrets long_sk and eph_sk
ClientHelloOf(long_sk, eph_sk, version) ==
    [type |-> "ClientHello", long_pk |-> PublicKey(long_sk),
     eph_pk |-> PublicKey(eph_sk), version |-> version]

ServerHello(long_pk, eph_pk, resume_token) ==
    [type |-> "ServerHello", long_pk |-> long_pk, eph_pk |-> eph_pk,
     resume_token |-> resume_token]

ClientResume(resume_token, shard_id) ==
    [type |-> "ClientResume", resume_token |-> resume_token, shard_id |-> shard_id]

\* bincode::serialize(self) of struct TokenInfo: the fields in their declared order
Serialize(info) == <<info.sess_key, info.init_time_ms, info.version>>

\* a deserialize that does not read the init_time_ms field
Deserialize_ZeroTime(plain) ==
    [sess_key |-> plain[1], init_time_ms |-> 0, version |-> plain[3]]

\* bincode::deserialize(&plain) into struct TokenInfo
Deserialize(plain) ==
    [sess_key |-> plain[1], init_time_ms |-> plain[2], version |-> plain[3]]

\* TokenInfo::encrypt(&self, key): LegacyAEAD under key, with the nonce rng.gen(), of
\* the serialized TokenInfo
TokenEncrypt(info, key, nonce) ==
    [plain |-> Serialize(info), key |-> key, nonce |-> nonce]

\* a decrypt that takes a token sealed under any key
TokenDecrypt_AnyKey(key, encrypted) ==
    [ok |-> TRUE, info |-> Deserialize(encrypted.plain)]

\* TokenInfo::decrypt(key, encrypted): Some(info) only under the key that encrypted
\* it (info is read only when ok)
TokenDecrypt(key, encrypted) ==
    IF encrypted.key = key THEN [ok |-> TRUE, info |-> Deserialize(encrypted.plain)]
    ELSE [ok |-> FALSE, info |-> Deserialize(encrypted.plain)]

\* LegacyAEAD::new(key).pad_encrypt_v1(frames, 1000): the datagram named id
PadEncryptV1(key, frames, id) == [id |-> id, key |-> key, frames |-> frames]

\* LegacyAEAD::new(key).pad_decrypt_v1::<HandshakeFrame>(buffer)
PadDecryptV1(key, buffer) ==
    IF buffer.key = key THEN [ok |-> TRUE, frames |-> buffer.frames]
    ELSE [ok |-> FALSE, frames |-> <<>>]

\* the bytes of a datagram: two datagrams are byte-identical iff they have the same id
Bytes(buffer) == buffer.id

\* a 0-byte datagram, and bytes that decrypt under no cookie key
ZeroLen == [id |-> 0, key |-> 0, frames |-> <<>>]
Garbage == [id |-> -1, key |-> 0, frames |-> <<>>]

\* a resume token made by another listener (another token_key)
ForeignToken ==
    TokenEncrypt([sess_key |-> TripleEcdh(<<"other_long_sk", 0>>, <<"other_eph_sk", 0>>,
                                          PublicKey(ClientLongSk), PublicKey(ClientEphSk)),
                  init_time_ms |-> 0, version |-> "3"], OtherTokenKey, 0)

\* a HandshakeFrame that is neither a ClientHello nor a ClientResume
OtherFrame == ServerHello(PublicKey(LongSk), PublicKey(ClientEphSk), ForeignToken)

----------------------------------------------------------------------------
(* table: ShardedAddrs and SessionTable.  The listener state these operators
   take and return is a record S with the fields by_token, by_addr and
   sessions (among others); a session's locked ShardedAddrs lives in its
   record, shared by the table entry and the output poller. *)

\* ShardedAddrs::new(shard_id, addr)
ShardedAddrsNew(shard_id, addr) == [map |-> (shard_id :> addr), index |-> 0]

\* the i-th smallest shard id of a non-empty set (i from 0)
RECURSIVE NthShard(_, _)
NthShard(ids, i) ==
    LET least == CHOOSE x \in ids : \A y \in ids : x <= y
    IN  IF i = 0 THEN least ELSE NthShard(ids \ {least}, i - 1)

\* ShardedAddrs::get_addr(&mut self): the shards in rotation
GetAddr(sa) ==
    LET n == Cardinality(DOMAIN sa.map)
        shard == NthShard(DOMAIN sa.map, sa.index % n)
    IN  [addr |-> sa.map[shard], shard |-> shard,
         next |-> [sa EXCEPT !.index = (sa.index + 1) % n]]

\* a ShardedAddrs whose last reference (the table entry's) is gone
FreedAddrs == [map |-> <<>>, index |-> 0]

\* SessionTable::lookup(addr): by_addr, then by_token
Lookup(S, addr) ==
    IF addr \in DOMAIN S.by_addr /\ S.by_addr[addr] \in DOMAIN S.by_token
    THEN S.by_token[S.by_addr[addr]]
    ELSE NoSess

\* SessionTable::new_sess(token, input_sender, locked_addrs)
NewSess(S, token, sid) ==
    [S EXCEPT !.by_token = (token :> sid) @@ @]

\* the bool SessionTable::rebind(addr, shard_id, token) returns
RebindFound(S, token) == token \in DOMAIN S.by_token

\* a rebind that replaces the ShardedAddrs of the entry by a new one
Rebind_FreshAddrs(S, addr, shard_id, token) ==
    IF token \in DOMAIN S.by_token
    THEN [S EXCEPT !.sessions[S.by_token[token]].locked_addrs = ShardedAddrsNew(shard_id, addr),
                   !.by_addr = (addr :> token) @@ @]
    ELSE S

\* the table after SessionTable::rebind(addr, shard_id, token)
Rebind(S, addr, shard_id, token) ==
    IF token \in DOMAIN S.by_token
    THEN [S EXCEPT !.sessions[S.by_token[token]].locked_addrs.map = (shard_id :> addr) @@ @,
                   !.by_addr = (addr :> token) @@ @]
    ELSE S

\* a delete that purges the addresses of the ShardedAddrs and keeps the by_token entry
Delete_AddrsOnly(S, token) ==
    IF token \in DOMAIN S.by_token
    THEN LET gone == {S.sessions[S.by_token[token]].locked_addrs.map[sh] :
                        sh \in DOMAIN S.sessions[S.by_token[token]].locked_addrs.map}
         IN  [S EXCEPT !.by_addr = [a \in (DOMAIN @) \ gone |-> @[a]]]
    ELSE S

\* SessionTable::delete(token)
Delete(S, token) ==
    IF token \in DOMAIN S.by_token
    THEN LET gone == {S.sessions[S.by_token[token]].locked_addrs.map[sh] :
                        sh \in DOMAIN S.sessions[S.by_token[token]].locked_addrs.map}
         IN  [S EXCEPT !.by_token = [t \in (DOMAIN @) \ {token} |-> @[t]],
                       !.by_addr = [a \in (DOMAIN @) \ gone |-> @[a]],
                       !.sessions[S.by_token[token]].locked_addrs = FreedAddrs]
    ELSE S

----------------------------------------------------------------------------
(* recfilter, governor *)

\* RECENT_FILTER.lock().check(&buffer): true iff not seen before
RecentCheck(seen, buffer) == Bytes(buffer) \notin seen

\* the filter after check(&buffer)
RecentInsert(seen, buffer) == seen \cup {Bytes(buffer)}

\* fallthrough_limiter.check_key(&addr).is_err()
LimiterDenies(lim, addr) == lim[addr] >= FallthroughQuota

\* the limiter after check_key(&addr)
LimiterTake(lim, addr) ==
    IF lim[addr] >= FallthroughQuota THEN lim ELSE [lim EXCEPT ![addr] = @ + 1]

----------------------------------------------------------------------------
(* ListenerActor::run: what the loop body does with one (buffer, addr) *)

\* SystemTime::now() in ms since the epoch: the wall clock is not modelled
NowMs == 0

\* a version check that also lets version 4 pass
VersionOk_UpTo4(version) == version \in {"1", "2", "3", "4"}

\* a version check that also lets version 0 pass
VersionOk_Zero(version) == version \in {"0", "1", "2", "3"}

\* the check of line 186: version is 1, 2 or 3
VersionOk(version) == ~(version # "1" /\ version # "2" /\ version # "3")

\* the output poller is waiting in session_output_recv.recv()
NoPacket == [shard |-> 0, to |-> "none"]

\* a session whose crypters have the directions of the client's
NewSession_ClientSide(tokinfo, shard_id, addr, resume_token) ==
    [resume_token |-> resume_token,
     version |-> tokinfo.version,
     send_crypt_legacy |-> KeyedHash("up", tokinfo.sess_key),
     recv_crypt_legacy |-> KeyedHash("dn", tokinfo.sess_key),
     send_crypt_ng |-> KeyedHash("up", tokinfo.sess_key),
     recv_crypt_ng |-> KeyedHash("dn", tokinfo.sess_key),
     locked_addrs |-> ShardedAddrsNew(shard_id, addr),
     input |-> <<>>,
     output |-> 0,
     sending |-> NoPacket,
     dropped |-> FALSE]

\* Session::new(SessionConfig {..}) with its channels, its ShardedAddrs and its
\* output poller; a crypter (LegacyAEAD::new, NgAEAD::new) is named by its key
NewSession(tokinfo, shard_id, addr, resume_token) ==
    [resume_token |-> resume_token,
     version |-> tokinfo.version,
     send_crypt_legacy |-> KeyedHash("dn", tokinfo.sess_key),
     recv_crypt_legacy |-> KeyedHash("up", tokinfo.sess_key),
     send_crypt_ng |-> KeyedHash("dn", tokinfo.sess_key),
     recv_crypt_ng |-> KeyedHash("up", tokinfo.sess_key),
     locked_addrs |-> ShardedAddrsNew(shard_id, addr),
     input |-> <<>>,
     output |-> 0,
     sending |-> NoPacket,
     dropped |-> FALSE]

\* a try_send that puts the datagram at the head of the channel
TrySend_Front(S, sid, buffer) ==
    IF ~S.sessions[sid].dropped /\ Len(S.sessions[sid].input) < SessionInputCap
    THEN [S EXCEPT !.sessions[sid].input = <<Bytes(buffer)>> \o @]
    ELSE S

\* a try_send into a channel without a capacity
TrySend_NoCap(S, sid, buffer) ==
    IF ~S.sessions[sid].dropped
    THEN [S EXCEPT !.sessions[sid].input = Append(@, Bytes(buffer))]
    ELSE S

\* handle.try_send(buffer.clone()): fails when the session is gone or its queue is full;
\* session_input holds the datagrams (by their bytes) in the order they were sent to it
TrySend(S, sid, buffer) ==
    IF ~S.sessions[sid].dropped /\ Len(S.sessions[sid].input) < SessionInputCap
    THEN [S EXCEPT !.sessions[sid].input = Append(@, Bytes(buffer))]
    ELSE S

\* a ClientHello arm that also binds the source address to the token it gives out
OnClientHello_Binds(S, frame, addr) ==
    IF frame.version \notin {"1", "2", "3"}
    THEN [S EXCEPT !.stop = TRUE]
    ELSE LET token == TokenEncrypt(
                        [sess_key |-> TripleEcdh(LongSk, EphSk(S.eph + 1),
                                                 frame.long_pk, frame.eph_pk),
                         init_time_ms |-> NowMs,
                         version |-> frame.version],
                        TokenKey, S.eph + 1)
             reply == PadEncryptV1(S2CKey,
                        <<ServerHello(PublicKey(LongSk), PublicKey(EphSk(S.eph + 1)), token)>>,
                        S.eph + 1)
         IN  [S EXCEPT !.eph = @ + 1,
                       !.sent = Append(@, [buffer |-> reply, to |-> addr]),
                       !.by_addr = (addr :> token) @@ @]

\* a ClientHello arm that seals its reply with the current c2s key
OnClientHello_ReplyC2S(S, frame, addr) ==
    IF ~VersionOk(frame.version)
    THEN [S EXCEPT !.stop = TRUE]
    ELSE LET my_eph_sk == EphSk(S.eph + 1)
             token == TokenEncrypt(
                        [sess_key |-> TripleEcdh(LongSk, my_eph_sk, frame.long_pk, frame.eph_pk),
                         init_time_ms |-> NowMs,
                         version |-> frame.version],
                        TokenKey, S.eph + 1)
             reply == PadEncryptV1(C2SKeys[1],
                        <<ServerHello(PublicKey(LongSk), PublicKey(my_eph_sk), token)>>,
                        S.eph + 1)
         IN  [S EXCEPT !.eph = @ + 1,
                       !.sent = Append(@, [buffer |-> reply, to |-> addr])]

\* a ClientHello arm that hands the client's two public keys to triple_ecdh swapped
OnClientHello_SwappedKeys(S, frame, addr) ==
    IF ~VersionOk(frame.version)
    THEN [S EXCEPT !.stop = TRUE]
    ELSE LET my_eph_sk == EphSk(S.eph + 1)
             token == TokenEncrypt(
                        [sess_key |-> TripleEcdh(LongSk, my_eph_sk, frame.eph_pk, frame.long_pk),
                         init_time_ms |-> NowMs,
                         version |-> frame.version],
                        TokenKey, S.eph + 1)
             reply == PadEncryptV1(S2CKey,
                        <<ServerHello(PublicKey(LongSk), PublicKey(my_eph_sk), token)>>,
                        S.eph + 1)
         IN  [S EXCEPT !.eph = @ + 1,
                       !.sent = Append(@, [buffer |-> reply, to |-> addr])]

\* a ClientHello arm that seals the token with another key than the one decrypt uses
OnClientHello_OtherKey(S, frame, addr) ==
    IF ~VersionOk(frame.version)
    THEN [S EXCEPT !.stop = TRUE]
    ELSE LET my_eph_sk == EphSk(S.eph + 1)
             token == TokenEncrypt(
                        [sess_key |-> TripleEcdh(LongSk, my_eph_sk, frame.long_pk, frame.eph_pk),
                         init_time_ms |-> NowMs,
                         version |-> frame.version],
                        OtherTokenKey, S.eph + 1)
             reply == PadEncryptV1(S2CKey,
                        <<ServerHello(PublicKey(LongSk), PublicKey(my_eph_sk), token)>>,
                        S.eph + 1)
         IN  [S EXCEPT !.eph = @ + 1,
                       !.sent = Append(@, [buffer |-> reply, to |-> addr])]

\* the ClientHello arm (lines 181-233)
OnClientHello(S, frame, addr) ==
    IF ~VersionOk(frame.version)
    THEN [S EXCEPT !.stop = TRUE]
    ELSE LET my_eph_sk == EphSk(S.eph + 1)
             token == TokenEncrypt(
                        [sess_key |-> TripleEcdh(LongSk, my_eph_sk, frame.long_pk, frame.eph_pk),
                         init_time_ms |-> NowMs,
                         version |-> frame.version],
                        TokenKey, S.eph + 1)
             reply == PadEncryptV1(S2CKey,
                        <<ServerHello(PublicKey(LongSk), PublicKey(my_eph_sk), token)>>,
                        S.eph + 1)
         IN  [S EXCEPT !.eph = @ + 1,
                       !.sent = Append(@, [buffer |-> reply, to |-> addr])]

\* a ClientResume arm that takes a token once: it builds no session for a token that a
\* session was built for before
OnClientResume_SingleUse(S, frame, addr) ==
    LET tokinfo == TokenDecrypt(TokenKey, frame.resume_token)
    IN  IF ~tokinfo.ok THEN S
        ELSE IF RebindFound(S, frame.resume_token)
        THEN Rebind(S, addr, frame.shard_id, frame.resume_token)
        ELSE IF \E old \in DOMAIN S.sessions :
                    S.sessions[old].resume_token = frame.resume_token
        THEN S
        ELSE LET sid == Len(S.sessions) + 1
                 session == NewSession(tokinfo.info, frame.shard_id, addr, frame.resume_token)
                 S1 == [S EXCEPT !.sessions = Append(@, session)]
                 S2 == NewSess(S1, frame.resume_token, sid)
                 S3 == Rebind(S2, addr, frame.shard_id, frame.resume_token)
             IN  [S3 EXCEPT !.accepted = Append(@, sid)]

\* a ClientResume arm that emits the new session without the rebind of line 335
OnClientResume_NoBind(S, frame, addr) ==
    LET tokinfo == TokenDecrypt(TokenKey, frame.resume_token)
    IN  IF ~tokinfo.ok THEN S
        ELSE IF RebindFound(S, frame.resume_token)
        THEN Rebind(S, addr, frame.shard_id, frame.resume_token)
        ELSE LET sid == Len(S.sessions) + 1
                 session == NewSession(tokinfo.info, frame.shard_id, addr, frame.resume_token)
                 S1 == [S EXCEPT !.sessions = Append(@, session)]
                 S2 == NewSess(S1, frame.resume_token, sid)
             IN  [S2 EXCEPT !.accepted = Append(@, sid)]

\* a ClientResume arm that builds a session without asking rebind first
OnClientResume_AlwaysNew(S, frame, addr) ==
    LET tokinfo == TokenDecrypt(TokenKey, frame.resume_token)
    IN  IF ~tokinfo.ok THEN S
        ELSE LET sid == Len(S.sessions) + 1
                 session == NewSession(tokinfo.info, frame.shard_id, addr, frame.resume_token)
                 S1 == [S EXCEPT !.sessions = Append(@, session)]
                 S2 == NewSess(S1, frame.resume_token, sid)
                 S3 == Rebind(S2, addr, frame.shard_id, frame.resume_token)
             IN  [S3 EXCEPT !.accepted = Append(@, sid)]

\* a ClientResume arm that leaves an existing token's bindings as they are
OnClientResume_NoRebind(S, frame, addr) ==
    LET tokinfo == TokenDecrypt(TokenKey, frame.resume_token)
    IN  IF ~tokinfo.ok THEN S
        ELSE IF RebindFound(S, frame.resume_token) THEN S
        ELSE LET sid == Len(S.sessions) + 1
                 session == NewSession(tokinfo.info, frame.shard_id, addr, frame.resume_token)
                 S1 == [S EXCEPT !.sessions = Append(@, session)]
                 S2 == NewSess(S1, frame.resume_token, sid)
                 S3 == Rebind(S2, addr, frame.shard_id, frame.resume_token)
             IN  [S3 EXCEPT !.accepted = Append(@, sid)]

\* a ClientResume arm that rebinds shard 0 whatever the shard_id of the frame
OnClientResume_ShardZero(S, frame, addr) ==
    LET tokinfo == TokenDecrypt(TokenKey, frame.resume_token)
    IN  IF ~tokinfo.ok THEN S
        ELSE IF RebindFound(S, frame.resume_token)
        THEN Rebind(S, addr, 0, frame.resume_token)
        ELSE LET sid == Len(S.sessions) + 1
                 session == NewSession(tokinfo.info, frame.shard_id, addr, frame.resume_token)
                 S1 == [S EXCEPT !.sessions = Append(@, session)]
                 S2 == NewSess(S1, frame.resume_token, sid)
                 S3 == Rebind(S2, addr, 0, frame.resume_token)
             IN  [S3 EXCEPT !.accepted = Append(@, sid)]

\* a ClientResume arm whose accept channel holds one session: try_send fails while a
\* session waits for accept_session, and the `?` ends the actor
OnClientResume_OneSlot(S, frame, addr) ==
    LET tokinfo == TokenDecrypt(TokenKey, frame.resume_token)
    IN  IF ~tokinfo.ok THEN S
        ELSE IF RebindFound(S, frame.resume_token)
        THEN Rebind(S, addr, frame.shard_id, frame.resume_token)
        ELSE LET sid == Len(S.sessions) + 1
                 session == NewSession(tokinfo.info, frame.shard_id, addr, frame.resume_token)
                 S1 == [S EXCEPT !.sessions = Append(@, session)]
                 S2 == NewSess(S1, frame.resume_token, sid)
                 S3 == Rebind(S2, addr, frame.shard_id, frame.resume_token)
             IN  IF S.accepted # <<>> THEN [S3 EXCEPT !.actor = "panicked"]
                 ELSE [S3 EXCEPT !.accepted = Append(@, sid)]

\* the ClientResume arm (lines 234-346); the Listener is alive, so accepted.try_send
\* (an unbounded channel) succeeds
OnClientResume(S, frame, addr) ==
    LET tokinfo == TokenDecrypt(TokenKey, frame.resume_token)
    IN  IF ~tokinfo.ok THEN S
        ELSE IF RebindFound(S, frame.resume_token)
        THEN Rebind(S, addr, frame.shard_id, frame.resume_token)
        ELSE LET sid == Len(S.sessions) + 1
                 session == NewSession(tokinfo.info, frame.shard_id, addr, frame.resume_token)
                 S1 == [S EXCEPT !.sessions = Append(@, session)]
                 S2 == NewSess(S1, frame.resume_token, sid)
                 S3 == Rebind(S2, addr, frame.shard_id, frame.resume_token)
             IN  [S3 EXCEPT !.accepted = Append(@, sid)]

\* match handshake[0].clone() (lines 180-348)
Dispatch(S, handshake, addr) ==
    IF Len(handshake) = 0 THEN [S EXCEPT !.actor = "panicked"]
    ELSE IF handshake[1].type = "ClientHello" THEN OnClientHello(S, handshake[1], addr)
    ELSE IF handshake[1].type = "ClientResume" THEN OnClientResume(S, handshake[1], addr)
    ELSE S

\* a round of the key loop that does not ask the recent filter
TryKey_NoFilter(S, possible_key, buffer, addr) ==
    LET handshake == PadDecryptV1(possible_key, buffer)
    IN  IF ~handshake.ok THEN S
        ELSE Dispatch([S EXCEPT !.filter = RecentInsert(@, buffer)], handshake.frames, addr)

\* a round of the key loop that asks the recent filter after the match on the frame
TryKey_LateCheck(S, possible_key, buffer, addr) ==
    LET handshake == PadDecryptV1(possible_key, buffer)
        S0 == [S EXCEPT !.tried = @ + 1]
    IN  IF ~handshake.ok THEN S0
        ELSE [Dispatch(S0, handshake.frames, addr) EXCEPT !.filter = RecentInsert(@, buffer)]

\* a round of the key loop that records the datagram before it tries to decrypt it
TryKey_RecordsFirst(S, possible_key, buffer, addr) ==
    LET handshake == PadDecryptV1(possible_key, buffer)
        S1 == [S EXCEPT !.filter = RecentInsert(@, buffer)]
    IN  IF ~RecentCheck(S.filter, buffer) THEN S
        ELSE IF ~handshake.ok THEN S1
        ELSE Dispatch(S1, handshake.frames, addr)

\* one round of `for possible_key in self.cookie.generate_c2s()` (lines 162-350);
\* tried counts the keys pad_decrypt_v1 has been called with for the buffer
TryKey(S, possible_key, buffer, addr) ==
    LET handshake == PadDecryptV1(possible_key, buffer)
        S0 == [S EXCEPT !.tried = @ + 1]
    IN  IF ~handshake.ok THEN S0
        ELSE IF ~RecentCheck(S.filter, buffer) THEN S0
        ELSE Dispatch([S0 EXCEPT !.filter = RecentInsert(@, buffer)], handshake.frames, addr)

\* the loop over the candidate keys, left by `break` or by a panic
RECURSIVE KeyLoop(_, _, _, _)
KeyLoop(S, keys, buffer, addr) ==
    IF keys = <<>> \/ S.stop \/ S.actor # "running" THEN S
    ELSE KeyLoop(TryKey(S, Head(keys), buffer, addr), Tail(keys), buffer, addr)

\* a loop body that asks the limiter before it hands the datagram to the session
HandleItem_LimiterFirst(S, buffer, addr) ==
    LET handle == Lookup(S, addr)
    IN  IF handle # NoSess
        THEN IF LimiterDenies(S.limiter, addr) THEN S
             ELSE LET S1 == [TrySend(S, handle, buffer) EXCEPT
                                !.limiter = LimiterTake(@, addr)]
                  IN  [KeyLoop(S1, C2SKeys, buffer, addr) EXCEPT !.stop = FALSE]
        ELSE [KeyLoop(S, C2SKeys, buffer, addr) EXCEPT !.stop = FALSE]

\* the body of `for (buffer, addr) in items` (lines 151-351).  It suspends at the
\* yield_now() of line 163 and at the send_to(..).await of line 227; the tasks that run
\* then (sessions, output pollers) write nothing the body reads afterwards (the table is
\* the listener's own, reaps wait in recv_dead), so the body is one step.
HandleItem(S, buffer, addr) ==
    LET handle == Lookup(S, addr)
    IN  IF handle # NoSess
        THEN LET S1 == [TrySend(S, handle, buffer) EXCEPT !.limiter = LimiterTake(@, addr)]
             IN  IF LimiterDenies(S.limiter, addr) THEN S1
                 ELSE [KeyLoop(S1, C2SKeys, buffer, addr) EXCEPT !.stop = FALSE]
        ELSE [KeyLoop(S, C2SKeys, buffer, addr) EXCEPT !.stop = FALSE]

----------------------------------------------------------------------------
(* The state machine *)

\* what the loop body reads and writes, as the record the operators above take
Cur ==
    [actor |-> actor, by_token |-> by_token, by_addr |-> by_addr,
     recv_dead |-> recv_dead, accepted |-> accepted, filter |-> filter, limiter |-> limiter, eph |-> eph, sessions |-> sessions,
     sent |-> <<>>, stop |-> FALSE, tried |-> 0]

\* the resume tokens in the packets of a sequence of send_to calls
TokensOf(packets) == {packets[i].buffer.frames[1].resume_token : i \in DOMAIN packets}

\* the handshake frames peers P can build: a ClientHello, a ClientResume with a token
\* the listener gave out and, from peers that send junk, a ClientResume with another
\* listener's token and a variant that is neither
PeerFrames(P) ==
    {ClientHello(v) : v \in P.versions}
    \cup {ClientResume(t, sh) : t \in issued, sh \in P.shards}
    \cup (IF P.junk
          THEN {ClientResume(ForeignToken, sh) : sh \in P.shards}
               \cup {OtherFrame}
          ELSE {})

\* the frame vectors peers P encrypt: one frame and, from peers that send junk, none
PeerVecs(P) == {<<f>> : f \in PeerFrames(P)} \cup (IF P.junk THEN {<<>>} ELSE {})

\* ids of the datagrams the network can deliver next: the bytes of a datagram it has
\* delivered (the filter knows only membership, so the last one stands for all) and,
\* below the bound, bytes never seen
NextIds(bound) ==
    {i \in {Cardinality(filter), Cardinality(filter) + 1} : 1 <= i /\ i <= bound}

\* the cookie keys the peers encrypt under: the current epoch's and an adjacent epoch's
PeerKeys == {C2SKeys[1], C2SKeys[Len(C2SKeys)]}

\* the datagrams peers P can send: a 0-byte one, bytes under no cookie key, and a
\* frame vector under a cookie key
PeerBuffers(P, bound) ==
    {ZeroLen, Garbage}
    \cup {PadEncryptV1(k, fs, i) :
            k \in PeerKeys, fs \in PeerVecs(P),
            i \in NextIds(bound)}

\* the packets in the channels and the output pollers of the first n sessions of ss
RECURSIVE Queued(_, _)
Queued(ss, n) ==
    IF n = 0 THEN 0
    ELSE Len(ss[n].input) + ss[n].output + (IF ss[n].sending = NoPacket THEN 0 ELSE 1)
         + Queued(ss, n - 1)

\* the bounds of the model hold of a listener state
WithinBounds(S) ==
    /\ Len(S.sessions) <= MaxSess
    /\ S.eph <= MaxEph
    /\ Queued(S.sessions, Len(S.sessions)) <= MaxQueued

Init ==
    /\ actor = "running"
    /\ by_token = <<>>
    /\ by_addr = <<>>
    /\ recv_dead = <<>>
    /\ accepted = <<>>
    /\ filter = {}
    /\ limiter = [a \in Addrs |-> 0]
    /\ eph = 0
    /\ issued = {}
    /\ sessions = <<>>
    /\ elapsed = 0

\* recv_from_many() returns Err: the unwrap() of line 137 panics
RecvError ==
    /\ actor = "running"
    /\ actor' = "panicked"
    /\ UNCHANGED <<elapsed, by_token, by_addr, recv_dead, accepted, filter, limiter,
                   eph, issued, sessions>>

\* the listener state after one iteration of `for (buffer, addr) in items`
ItemStep(buffer, addr) ==
    LET R == HandleItem(Cur, buffer, addr)
    IN  /\ actor' = R.actor
        /\ by_token' = R.by_token
        /\ by_addr' = R.by_addr
        /\ accepted' = R.accepted
        /\ filter' = R.filter
        /\ limiter' = R.limiter
        /\ eph' = R.eph
        /\ issued' = issued \cup TokensOf(R.sent)
        /\ sessions' = R.sessions
        /\ recv_dead' = R.recv_dead
        /\ elapsed' = elapsed

\* Evt::NewRecv(items) wins the race and the loop takes the next (buffer, addr).  A
\* batch of n datagrams is n such steps: Evt::DeadSess is not taken in between, which
\* the race allows for any n consecutive datagrams anyway.
NewRecv(P, bound) ==
    /\ actor = "running"
    /\ \E buffer \in PeerBuffers(P, bound), addr \in P.addrs :
          /\ P.paced /\ Lookup(Cur, addr) # NoSess => limiter[addr] = 0
          /\ WithinBounds(HandleItem(Cur, buffer, addr))
          /\ ItemStep(buffer, addr)

\* datagrams from the peers of Spec
ProcessItem == NewRecv(SpecPeers, MaxSeen)

\* datagrams from the peers of FloodSpec, which may use up the limiter
FloodItem == NewRecv(FloodPeers, FloodSeen)

\* Evt::DeadSess(resume_token) wins the race: session_table.delete(resume_token)
DeadSess ==
    /\ actor = "running"
    /\ recv_dead # <<>>
    /\ LET R == Delete(Cur, Head(recv_dead))
       IN  /\ by_token' = R.by_token
           /\ by_addr' = R.by_addr
           /\ sessions' = R.sessions
    /\ recv_dead' = Tail(recv_dead)
    /\ UNCHANGED <<elapsed, actor, accepted, filter, limiter, eph, issued>>

\* Listener::accept_session: the consumer takes the next session
AcceptSession ==
    /\ accepted # <<>>
    /\ accepted' = Tail(accepted)
    /\ UNCHANGED <<elapsed, actor, by_token, by_addr, recv_dead, filter, limiter,
                   eph, issued, sessions>>

\* accept_session returns None: the channel is closed, which it is once the Sender,
\* owned by ListenerActor::run, is dropped at the end of the task
AcceptClosed(S) == S.actor # "running"

\* the sessions the consumer holds
Held == {sid \in DOMAIN sessions :
            ~sessions[sid].dropped /\ \A i \in DOMAIN accepted : accepted[i] # sid}

\* the consumer drops a Session (or it times out): the on_drop hook of lines 325-328
\* cancels the output poller and sends the token to send_dead; the channels close
DropSession(sid) ==
    /\ sid \in Held
    /\ sessions' = [sessions EXCEPT ![sid].dropped = TRUE, ![sid].input = <<>>,
                                    ![sid].output = 0, ![sid].sending = NoPacket]
    /\ recv_dead' = Append(recv_dead, sessions[sid].resume_token)
    /\ UNCHANGED <<elapsed, actor, by_token, by_addr, accepted, filter, limiter, eph, issued>>

\* Session::send_bytes: the consumer queues a packet on session_output
SessionSend(sid) ==
    /\ sid \in Held
    /\ sessions[sid].output < SessionOutputCap
    /\ Queued(sessions, Len(sessions)) < MaxQueued
    /\ sessions' = [sessions EXCEPT ![sid].output = @ + 1]
    /\ UNCHANGED <<elapsed, actor, by_token, by_addr, recv_dead, accepted, filter, limiter,
                   eph, issued>>

\* Session::recv_bytes: the consumer takes a packet from session_input
SessionRecv(sid) ==
    /\ sid \in Held
    /\ sessions[sid].input # <<>>
    /\ sessions' = [sessions EXCEPT ![sid].input = Tail(@)]
    /\ UNCHANGED <<elapsed, actor, by_token, by_addr, recv_dead, accepted, filter, limiter,
                   eph, issued>>

\* the address the output poller of sid gets from locked_addrs.write().get_addr()
PollerAddr(sid) == GetAddr(sessions[sid].locked_addrs)

\* the output poller of sid (cancelled by the drop hook) leaves recv() with a packet,
\* takes get_addr() and calls write_socket.send_to(data, remote_addr)
OutputPollerRecv(sid) ==
    /\ sid \in DOMAIN sessions
    /\ ~sessions[sid].dropped
    /\ sessions[sid].sending = NoPacket
    /\ sessions[sid].output > 0
    /\ sessions' = [sessions EXCEPT
                      ![sid].output = @ - 1,
                      ![sid].sending = [shard |-> PollerAddr(sid).shard,
                                        to |-> PollerAddr(sid).addr],
                      ![sid].locked_addrs = PollerAddr(sid).next]
    /\ UNCHANGED <<elapsed, actor, by_token, by_addr, recv_dead, accepted, filter, limiter,
                   eph, issued>>

\* send_to(..).await returns: the packet has left for the address taken before
OutputPollerSent(sid) ==
    /\ sid \in DOMAIN sessions
    /\ sessions[sid].sending # NoPacket
    /\ sessions' = [sessions EXCEPT ![sid].sending = NoPacket]
    /\ UNCHANGED <<elapsed, actor, by_token, by_addr, recv_dead, accepted, filter, limiter,
                   eph, issued>>

\* time passes: the limiter gives a cell back to addr (one every 12 s)
Replenish(addr) ==
    /\ limiter[addr] > 0
    /\ limiter' = [limiter EXCEPT ![addr] = @ - 1]
    /\ UNCHANGED <<elapsed, actor, by_token, by_addr, recv_dead, accepted, filter,
                   eph, issued, sessions>>

\* what the listener does on a reap, and what the other tasks do
Others ==
    \/ DeadSess
    \/ AcceptSession
    \/ \E sid \in DOMAIN sessions : DropSession(sid)
    \/ \E sid \in DOMAIN sessions : SessionSend(sid)
    \/ \E sid \in DOMAIN sessions : SessionRecv(sid)
    \/ \E sid \in DOMAIN sessions : OutputPollerRecv(sid)
    \/ \E sid \in DOMAIN sessions : OutputPollerSent(sid)
    \/ \E addr \in Addrs : Replenish(addr)

Next == ProcessItem \/ Others

Spec == Init /\ [][Next]_vars

FloodNext == FloodItem \/ RecvError \/ Others

FloodSpec == Init /\ [][FloodNext]_vars

\* the datagrams of a peer whose session does not keep up: its handshake while it has
\* no session, then datagrams for the session (no handshake key opens them)
QueueBuffers ==
    IF Lookup(Cur, "a1") # NoSess THEN {Garbage}
    ELSE {PadEncryptV1(C2SKeys[1], <<f>>, Cardinality(filter) + 1) :
            f \in IF Cardinality(filter) < SetupSeen THEN PeerFrames(SpecPeers) ELSE {}}

\* Evt::NewRecv(items) with a datagram of that peer; session_input bounds itself
QueueItem ==
    /\ actor = "running"
    /\ \E buffer \in QueueBuffers :
          /\ Len(HandleItem(Cur, buffer, "a1").sessions) <= MaxSess
          /\ HandleItem(Cur, buffer, "a1").eph <= MaxEph
          /\ ItemStep(buffer, "a1")

QueueNext ==
    \/ QueueItem
    \/ DeadSess
    \/ AcceptSession
    \/ \E sid \in DOMAIN sessions : DropSession(sid)
    \/ \E sid \in DOMAIN sessions : SessionRecv(sid)
    \/ \E addr \in Addrs : Replenish(addr)

QueueSpec == Init /\ [][QueueNext]_vars

\* Quota::per_minute(5) gives a cell back every 60 s / 5: a minute is 5 such periods
PeriodsPerMinute == FallthroughQuota

\* the packets the peer of BurstSpec sends in the minute
BurstPackets == PacketsPerPeriod * PeriodsPerMinute

\* handshake frames that are not valid: a version the listener does not speak, a
\* resume token of another listener, a frame that is no Client* variant
JunkFrames == {ClientHello("4"), ClientResume(ForeignToken, 0), OtherFrame}

\* the datagrams of the peer of BurstSpec: its handshake while it has no session, then
\* (the session is live) datagrams that decrypt but are no valid handshake, each sent
\* again until the listener has decoded it
BurstBuffers ==
    IF Lookup(Cur, "a1") # NoSess
    THEN {PadEncryptV1(C2SKeys[1], <<f>>, Cardinality(filter) + 1) : f \in JunkFrames}
    ELSE {PadEncryptV1(C2SKeys[1], <<f>>, Cardinality(filter) + 1) :
            f \in IF Cardinality(filter) < SetupSeen THEN PeerFrames(SpecPeers) ELSE {}}

\* Evt::NewRecv(items) with a datagram of that peer, which sends PacketsPerPeriod
\* packets in every period of the minute
BurstItem ==
    /\ actor = "running"
    /\ elapsed < PeriodsPerMinute
    /\ Lookup(Cur, "a1") # NoSess =>
          Len(sessions[Lookup(Cur, "a1")].input) < (elapsed + 1) * PacketsPerPeriod
    /\ \E buffer \in BurstBuffers :
          /\ Len(HandleItem(Cur, buffer, "a1").sessions) <= MaxSess
          /\ HandleItem(Cur, buffer, "a1").eph <= MaxEph
          /\ ItemStep(buffer, "a1")

\* a replenish period of the minute ends: the MonotonicClock of the limiter has
\* advanced by 12 s and every address has a cell back
BurstTick ==
    /\ Lookup(Cur, "a1") # NoSess
    /\ elapsed < PeriodsPerMinute
    /\ Len(sessions[Lookup(Cur, "a1")].input) = (elapsed + 1) * PacketsPerPeriod
    /\ elapsed' = elapsed + 1
    /\ limiter' = [a \in Addrs |-> IF limiter[a] > 0 THEN limiter[a] - 1 ELSE 0]
    /\ UNCHANGED <<actor, by_token, by_addr, recv_dead, accepted, filter,
                   eph, issued, sessions>>

BurstNext == BurstItem \/ BurstTick \/ AcceptSession

BurstSpec == Init /\ [][BurstNext]_vars

----------------------------------------------------------------------------
(* Properties.  Those of the loop body are stated of HandleItem applied to the
   current state and a datagram: they hold of every datagram any peer can
   send next, whether or not the peers of the specification send it. *)

\* the candidate cookie keys of the listener
CookieKeys == {C2SKeys[i] : i \in DOMAIN C2SKeys}

\* a datagram with bytes never seen before that holds frames under key
FreshBuffer(key, frames) == PadEncryptV1(key, frames, Cardinality(filter) + 1)

\* every datagram with bytes never seen before
FreshBuffers ==
    {ZeroLen, Garbage}
    \cup {FreshBuffer(key, fs) : key \in PeerKeys, fs \in PeerVecs(AllPeers)}

\* the loop body goes on to decode a datagram from addr: there is no session at addr,
\* or the fallthrough limiter has a cell left
Decodes(S, addr) == Lookup(S, addr) = NoSess \/ S.limiter[addr] < FallthroughQuota

\* R has the session table of S: both indices, the sessions and their ShardedAddrs
SameTable(S, R) ==
    /\ R.by_token = S.by_token
    /\ R.by_addr = S.by_addr
    /\ Len(R.sessions) = Len(S.sessions)
    /\ \A sid \in DOMAIN S.sessions :
          R.sessions[sid].locked_addrs = S.sessions[sid].locked_addrs

\* going from S to R took no handshake action: same table, accept queue and reap
\* channel, nothing sent, no secret drawn, the listener as it was
Untouched(S, R) ==
    /\ SameTable(S, R)
    /\ R.accepted = S.accepted
    /\ R.recv_dead = S.recv_dead
    /\ R.sent = <<>>
    /\ R.eph = S.eph
    /\ R.actor = S.actor

\* the only thing sent from S to R is one ServerHello, under the s2c key, to addr
OneServerHello(R, addr) ==
    /\ Len(R.sent) = 1
    /\ R.sent[1].to = addr
    /\ R.sent[1].buffer.key = S2CKey
    /\ Len(R.sent[1].buffer.frames) = 1
    /\ R.sent[1].buffer.frames[1].type = "ServerHello"

\* the addresses the by_addr index ba binds to token
BoundTo(ba, token) == {a \in DOMAIN ba : ba[a] = token}

\* R is S after a rebind of shard sh of the session of token to addr, and nothing else
Rebound(S, R, token, sh, addr) ==
    /\ Len(R.sessions) = Len(S.sessions)
    /\ R.accepted = S.accepted
    /\ R.by_token = S.by_token
    /\ addr \in DOMAIN R.by_addr
    /\ R.by_addr[addr] = token
    /\ sh \in DOMAIN R.sessions[S.by_token[token]].locked_addrs.map
    /\ R.sessions[S.by_token[token]].locked_addrs.map[sh] = addr

\* C1 as stated: a ClientResume, in a datagram not seen before, whose token has an
\* entry in the session table only rebinds the source address (and shard) to that
\* token and emits no second session, so that each of N such frames after the first
\* is a rebind.
C1_AlwaysRebinds ==
    actor = "running" =>
    \A token \in DOMAIN by_token, addr \in Addrs, sh \in Shards, key \in PeerKeys :
       Rebound(Cur, HandleItem(Cur, FreshBuffer(key, <<ClientResume(token, sh)>>), addr),
               token, sh, addr)

\* C1: a ClientResume, in a datagram not seen before, whose token has an entry in the
\* session table creates no session and emits none to the accept queue; when the loop
\* body decodes it (no session at the source address, or the limiter has a cell left)
\* it rebinds the source address and shard to the token, and otherwise it is skipped
\* with the table as it was.
C1_IdempotentResume ==
    actor = "running" =>
    \A token \in DOMAIN by_token, addr \in Addrs, sh \in Shards, key \in PeerKeys :
       LET R == HandleItem(Cur, FreshBuffer(key, <<ClientResume(token, sh)>>), addr)
       IN  IF Lookup(Cur, addr) = NoSess \/ limiter[addr] < FallthroughQuota
           THEN Rebound(Cur, R, token, sh, addr)
           ELSE Untouched(Cur, R) /\ R.filter = filter

\* C1: the one session there is has been rebound (its second shard came with a later
\* ClientResume) and the limiter of its address has no cell left
C1_Witness ==
    /\ actor = "running"
    /\ Len(sessions) = 1
    /\ DOMAIN by_token = {sessions[1].resume_token}
    /\ DOMAIN sessions[1].locked_addrs.map = Shards
    /\ limiter["a1"] = FallthroughQuota

C3_HelloStateless ==
    actor = "running" =>
    \A addr \in Addrs :
       /\ \A key \in PeerKeys, version \in Versions :
             LET R == HandleItem(Cur, FreshBuffer(key, <<ClientHello(version)>>), addr)
             IN  /\ SameTable(Cur, R)
                 /\ R.accepted = accepted
                 /\ R.recv_dead = recv_dead
                 /\ R.sent = <<>> \/ OneServerHello(R, addr)
       /\ \A buffer \in FreshBuffers :
             LET R == HandleItem(Cur, buffer, addr)
             IN  (\/ Len(R.sessions) # Len(sessions)
                  \/ R.accepted # accepted
                  \/ DOMAIN R.by_token # DOMAIN by_token)
                 => /\ Len(buffer.frames) = 1
                    /\ buffer.frames[1].type = "ClientResume"

\* C3: two ClientHello have been answered and there is no session and no table entry
C3_Witness ==
    /\ actor = "running"
    /\ eph = 2
    /\ Cardinality(issued) = 2
    /\ sessions = <<>>
    /\ by_token = <<>>
    /\ by_addr = <<>>
    /\ accepted = <<>>

\* C4: for every address a and every token t in by_token, lookup(a) after
\* rebind(a, _, t) returns the input sender of t; and lookup(a) after delete(t) returns
\* none for every address a that by_addr bound to t.
C4_LookupLaw ==
    \A token \in DOMAIN by_token :
       /\ \A a \in Addrs, sh \in Shards :
             Lookup(Rebind(Cur, a, sh, token), a) = by_token[token]
       /\ \A a \in BoundTo(by_addr, token) :
             Lookup(Delete(Cur, token), a) = NoSess

\* C4: a token whose shard was rebound from one address to another has been deleted:
\* the address it left is still in by_addr, and lookup finds nothing there
C4_Witness ==
    \E a \in DOMAIN by_addr :
       /\ by_addr[a] \notin DOMAIN by_token
       /\ Lookup(Cur, a) = NoSess

\* C5: every token in by_token has at least one by_addr entry pointing to it.
C5_EveryTokenBound ==
    \A token \in DOMAIN by_token : BoundTo(by_addr, token) # {}

\* C6 as stated: once a shard of a session is bound to a new address, every packet
\* the session's output poller sends for that shard goes to the address the shard is
\* bound to, never to the one it was bound to before.
C6_NeverOldAddress ==
    \A sid \in DOMAIN sessions :
       sessions[sid].sending # NoPacket =>
          /\ sessions[sid].sending.shard \in DOMAIN sessions[sid].locked_addrs.map
          /\ sessions[sid].locked_addrs.map[sessions[sid].sending.shard]
                = sessions[sid].sending.to

\* C6: when the listener decodes a ClientResume from addr for a token in the table on
\* a shard the session has, no session is created, the shard is bound to addr, and
\* the address the output poller takes from get_addr for that shard from then on is
\* addr; the packet the poller is sending at that moment keeps the address it took.
C6_RebindRedirects ==
    actor = "running" =>
    \A token \in DOMAIN by_token, addr \in Addrs, sh \in Shards, key \in PeerKeys :
       LET sid == by_token[token]
           R == HandleItem(Cur, FreshBuffer(key, <<ClientResume(token, sh)>>), addr)
       IN  Decodes(Cur, addr) /\ sh \in DOMAIN sessions[sid].locked_addrs.map =>
              /\ Len(R.sessions) = Len(sessions)
              /\ R.accepted = accepted
              /\ R.sessions[sid].locked_addrs.map[sh] = addr
              /\ GetAddr(R.sessions[sid].locked_addrs).shard = sh
                    => GetAddr(R.sessions[sid].locked_addrs).addr = addr
              /\ R.sessions[sid].sending = sessions[sid].sending

\* C6: a session made at a1 had its shard rebound from a2, and its output poller is
\* sending a packet to a2
C6_Witness ==
    \E sid \in DOMAIN sessions :
       /\ BoundTo(by_addr, sessions[sid].resume_token) = {"a1", "a2"}
       /\ sessions[sid].locked_addrs.map = (0 :> "a2")
       /\ sessions[sid].sending = [shard |-> 0, to |-> "a2"]

\* C7: a token waiting in the reap channel has a running listener to process it
\* (else the reap is never processed).
C7_ReapProcessed ==
    recv_dead # <<>> => actor = "running"

\* C8: while a token waits in the reap channel, a step that is not a reap (it leaves
\* the channel as it is) does not change what the table binds to that token.
C8_ReapBeforeReceive ==
    [][recv_dead' = recv_dead =>
          \A i \in DOMAIN recv_dead :
             BoundTo(by_addr', recv_dead[i]) = BoundTo(by_addr, recv_dead[i])]_vars

\* C9: a handshake packet not seen before that the loop body decodes and that holds a
\* ClientHello with a version other than 1, 2, 3 (0, 4, 99, 2^63), or a frame that is
\* neither a ClientHello nor a ClientResume, causes no reply, no table change and no
\* accepted session, and the listener keeps running; one that holds a ClientHello with
\* version 1, 2 or 3 is answered with one ServerHello to the source address.
C9_ViolationsDropped ==
    actor = "running" =>
    \A addr \in Addrs, key \in CookieKeys :
       Decodes(Cur, addr) =>
          /\ \A version \in Versions :
                LET R == HandleItem(Cur, FreshBuffer(key, <<ClientHello(version)>>), addr)
                IN  IF version \in {"1", "2", "3"}
                    THEN OneServerHello(R, addr) /\ R.actor = "running"
                    ELSE Untouched(Cur, R)
          /\ Untouched(Cur, HandleItem(Cur, FreshBuffer(key, <<OtherFrame>>), addr))

\* C9: two handshake packets have been decoded and recorded; one was answered, the
\* other (no session came of it) was dropped, and the listener is running
C9_Witness ==
    /\ actor = "running"
    /\ Cardinality(filter) = 2
    /\ eph = 1
    /\ Cardinality(issued) = 1
    /\ sessions = <<>>

\* C10: a ClientResume whose token does not decrypt under token_key creates no
\* session, leaves the session table and the accept queue unchanged, and nothing is
\* sent back.
C10_ForeignTokenDropped ==
    actor = "running" =>
    \A addr \in Addrs, key \in CookieKeys, sh \in Shards :
       Untouched(Cur, HandleItem(Cur, FreshBuffer(key, <<ClientResume(ForeignToken, sh)>>), addr))

\* C10: a handshake packet has been decoded and recorded while no token was given
\* out, and nothing came of it
C10_Witness ==
    /\ actor = "running"
    /\ Cardinality(filter) = 1
    /\ issued = {}
    /\ sessions = <<>>

\* C11 (as the specification states it): transient I/O errors never stop the listener;
\* in particular the step in which recv_from_many() yields an error leaves the event
\* loop running, so that later datagrams are still processed.  The sends are no
\* trouble: the result of send_to is thrown away at lines 227 and 285-292.
C11_RecvErrorSurvived == [][RecvError => actor' = "running"]_vars

\* datagrams that decrypt under none of the candidate c2s keys: a 0-byte one, bytes
\* under no key, and handshakes sealed with the server-to-client key
Undecryptable ==
    {ZeroLen, Garbage}
    \cup {PadEncryptV1(S2CKey, fs, i) :
            fs \in PeerVecs(AllPeers),
            i \in {Cardinality(filter), Cardinality(filter) + 1}}

\* C12: a datagram from an address with no live session that decrypts under none of
\* the candidate c2s keys (a 0-byte datagram included) is dropped silently: nothing is
\* sent, the session table, the accept queue and the replay filter are as before, and
\* the listener goes on running.
C12_UndecryptableDropped ==
    actor = "running" =>
        \A addr \in Addrs, buffer \in Undecryptable :
            Lookup(Cur, addr) = NoSess =>
                LET R == HandleItem(Cur, buffer, addr)
                IN  /\ Untouched(Cur, R)
                    /\ R.sessions = sessions
                    /\ R.filter = filter
                    /\ R.limiter = limiter
                    /\ R.actor = "running"

\* a running listener that has recorded datagrams and whose address a1 has lost its
\* session to a reap: an undecryptable datagram from a1 finds no session
C12_Witness ==
    /\ actor = "running"
    /\ filter # {}
    /\ Len(sessions) >= 1
    /\ Lookup(Cur, "a1") = NoSess
    /\ \A buffer \in Undecryptable : HandleItem(Cur, buffer, "a1").sent = <<>>

\* C13: when the input channel of a live session already holds 1000 packets, a further
\* packet from the address of the session is dropped by try_send: the loop body
\* returns with the 1000 queued packets as they were and the session still in the
\* table; and whenever the queue has room (again), the packet is put at its end.
C13_Backpressure ==
    actor = "running" =>
        \A addr \in Addrs, buffer \in FreshBuffers :
            LET sid == Lookup(Cur, addr)
                R == HandleItem(Cur, buffer, addr)
            IN  sid # NoSess /\ ~sessions[sid].dropped =>
                    /\ sessions[sid].resume_token \in DOMAIN R.by_token
                    /\ R.by_token[sessions[sid].resume_token] = sid
                    /\ Len(R.sessions[sid].input) <= SessionInputCap
                    /\ IF Len(sessions[sid].input) = SessionInputCap
                       THEN R.sessions[sid].input = sessions[sid].input
                       ELSE R.sessions[sid].input =
                                Append(sessions[sid].input, Bytes(buffer))

\* the consumer holds a session whose input channel is full, and the limiter of its
\* address is used up by the packets that filled it
C13_Witness ==
    /\ actor = "running"
    /\ \E sid \in Held :
          /\ Len(sessions[sid].input) = SessionInputCap
          /\ Lookup(Cur, "a1") = sid
    /\ limiter["a1"] = FallthroughQuota

\* the handshake-decode attempts among the packets in the input channel of sid: a
\* datagram the listener has tried to decode is in the replay filter
Decoded(sid) ==
    Cardinality({sessions[sid].input[i] : i \in DOMAIN sessions[sid].input} \cap filter)

\* the listener state after the next item (buffer, addr) of the loop, if it still runs
ThenItem(S, buffer, addr) ==
    IF S.actor = "running"
    THEN HandleItem([S EXCEPT !.sent = <<>>, !.tried = 0], buffer, addr)
    ELSE S

\* datagrams with bytes that differ from those of every datagram of FreshBuffers
LaterBuffers ==
    {PadEncryptV1(key, fs, Cardinality(filter) + 2) :
        key \in PeerKeys, fs \in PeerVecs(FloodPeers)}

\* C14: the packets of one source address that reach the input queue of a session are
\* there in the order in which the listener received them.  Of the queue as it is: the
\* datagrams of the peer, which are numbered in the order of their first arrival, lie
\* in the queue in that order.  Of any two datagrams b1, b2 the listener receives next
\* from one address, in one batch or in two: every queue keeps what it holds at its
\* head and gets b1, b2, both (b1 before b2) or neither at its end.
C14_ReceiveOrder ==
    /\ \A sid \in DOMAIN sessions :
          \A i, j \in DOMAIN sessions[sid].input :
              i < j => sessions[sid].input[i] <= sessions[sid].input[j]
    /\ actor = "running" =>
          \A addr \in Addrs, b1 \in FreshBuffers, b2 \in LaterBuffers :
              LET R == ThenItem(HandleItem(Cur, b1, addr), b2, addr)
              IN  \A sid \in DOMAIN sessions :
                      R.sessions[sid].input \in
                          {sessions[sid].input,
                           Append(sessions[sid].input, Bytes(b1)),
                           Append(sessions[sid].input, Bytes(b2)),
                           sessions[sid].input \o <<Bytes(b1), Bytes(b2)>>}

\* the input queue of a session holds packets of the first and of the third period of
\* the minute, decoded ones and skipped ones, and two more would still fit
C14_Witness ==
    \E sid \in DOMAIN sessions :
        /\ Lookup(Cur, "a1") = sid
        /\ elapsed = 2
        /\ Len(sessions[sid].input) > 2 * PacketsPerPeriod
        /\ sessions[sid].input[1] < sessions[sid].input[Len(sessions[sid].input)]
        /\ Decoded(sid) < Len(sessions[sid].input)
        /\ \E b1 \in FreshBuffers, b2 \in LaterBuffers :
              ThenItem(HandleItem(Cur, b1, "a1"), b2, "a1").sessions[sid].input =
                  sessions[sid].input \o <<Bytes(b1), Bytes(b2)>>

\* C15 (as the specification states it): when an address with a live session has sent
\* 100 packets that are no valid handshakes within one minute, at least 95 of them
\* were skipped without a handshake-decode attempt (all of them reach the session).
C15_AtLeast95Skipped ==
    \A sid \in DOMAIN sessions :
        Len(sessions[sid].input) = 100 /\ elapsed < PeriodsPerMinute =>
            Len(sessions[sid].input) - Decoded(sid) >= 95

\* C16 (as the specification states it): the listener never surfaces a per-packet
\* error to its consumer: no inbound datagram of any kind, handled by a running
\* listener, closes the accept channel (accept_session goes on yielding sessions).
C16_NoPacketClosesAccept ==
    ~AcceptClosed(Cur) =>
        \A addr \in Addrs, buffer \in FreshBuffers :
            ~AcceptClosed(HandleItem(Cur, buffer, addr))

\* the listener state after a client at addr has sent a ClientHello (version 3) under
\* key, and the resume token of the ServerHello the listener sent back
AfterHello(key, addr) == HandleItem(Cur, FreshBuffer(key, <<ClientHello("3")>>), addr)
TokenOfReply(R) == PadDecryptV1(S2CKey, R.sent[1].buffer).frames[1].resume_token

\* the listener state after that client has then sent a ClientResume with that token
AfterResume(key, addr, sh) ==
    ThenItem(AfterHello(key, addr),
             PadEncryptV1(key, <<ClientResume(TokenOfReply(AfterHello(key, addr)), sh)>>,
                          Cardinality(filter) + 2),
             addr)

\* the handshake of a client at addr has put exactly one session, with the token the
\* client was given, at the end of the accept queue, and has bound addr to it; a
\* further ClientResume with the token (another shard, another address) adds none
Completed(key, addr, sh) ==
    LET R1 == AfterHello(key, addr)
        R2 == AfterResume(key, addr, sh)
        sid == Len(sessions) + 1
    IN  /\ OneServerHello(R1, addr)
        /\ R1.sent[1].buffer.frames[1].long_pk = PublicKey(LongSk)
        /\ Len(R2.sessions) = sid
        /\ R2.accepted = Append(accepted, sid)
        /\ R2.sessions[sid].resume_token = TokenOfReply(R1)
        /\ Lookup(R2, addr) = sid
        /\ \A addr2 \in Addrs, sh2 \in Shards :
              LET R3 == ThenItem(R2,
                           PadEncryptV1(key, <<ClientResume(TokenOfReply(R1), sh2)>>,
                                        Cardinality(filter) + 3),
                           addr2)
              IN  Decodes(R2, addr2) =>
                      /\ Len(R3.sessions) = sid
                      /\ R3.accepted = R2.accepted
                      /\ Lookup(R3, addr2) = sid

ClientSecrets == {ClientLongSk, ClientEphSk, <<"client_long_sk", 1>>, LongSk}

\* secrets a server may hold as its long-term secret
ServerSecrets == {LongSk, <<"server_long_sk", 1>>, ClientLongSk}

\* the session key a client with the secrets long_sk, eph_sk computes from the
\* ServerHello in reply (pad_decrypt_v1 under the s2c key, then triple_ecdh)
ClientKey(long_sk, eph_sk, reply) ==
    LET hello == PadDecryptV1(S2CKey, reply).frames[1]
    IN  TripleEcdh(long_sk, eph_sk, hello.long_pk, hello.eph_pk)

\* the session key the listener stored in the resume token of the ServerHello in reply
ServerKey(reply) ==
    TokenDecrypt(TokenKey, PadDecryptV1(S2CKey, reply).frames[1].resume_token).info.sess_key

TokenKeys == {TokenKey, OtherTokenKey}
TokenInfos ==
    [sess_key : {TripleEcdh(LongSk, EphSk(n), PublicKey(ClientLongSk), PublicKey(sk)) :
                    n \in 1..(eph + 1), sk \in {ClientEphSk, ClientLongSk}},
     init_time_ms : {NowMs, 1},
     version : Versions]

AllAccepted(S) == [S EXCEPT !.accepted = <<>>]

ConnectUdp == [num_shards |-> UdpShards, reset_interval |-> {UdpResetSecs}]
ConnectTcp == [num_shards |-> TcpShards, reset_interval |-> {}]

\* the local addresses of the backhauls of one client, one per shard: sockets of its
\* own, which no session is bound to
ClientAddrs ==
    <<"c1", "c2", "c3", "c4", "c5", "c6", "c7", "c8",
      "c9", "c10", "c11", "c12", "c13", "c14", "c15", "c16">>

\* the listener state after the client has sent ClientResume{token, shard_id} for the
\* shard ids 0 .. k-1, each in a datagram of its own from ClientAddrs[shard_id + 1]
RECURSIVE ResumeShards(_, _, _)
ResumeShards(S, token, k) ==
    IF k = 0 THEN S
    ELSE ThenItem(ResumeShards(S, token, k - 1),
                  PadEncryptV1(C2SKeys[1], <<ClientResume(token, k - 1)>>,
                               Cardinality(filter) + k),
                  ClientAddrs[k])

\* C21: connect_udp uses 8 shards and a reset interval of 20 s, connect_tcp 16 shards
\* and no reset interval; and when a client sends one ClientResume per shard id in
\* 0 .. num_shards - 1, all with one resume token and each from its own address, the
\* listener ends with exactly one session for the token (the one it had, or one new
\* session in the accept queue), every one of the addresses looks up to that session,
\* and the ShardedAddrs of the session maps every shard id to the address of its shard.
C21_MultiShardConnect ==
    /\ ConnectUdp = [num_shards |-> 8, reset_interval |-> {20}]
    /\ ConnectTcp = [num_shards |-> 16, reset_interval |-> {}]
    /\ actor = "running" =>
          \A token \in issued, config \in {ConnectUdp, ConnectTcp} :
              LET R == ResumeShards(Cur, token, config.num_shards)
                  had == token \in DOMAIN by_token
                  sid == IF had THEN by_token[token] ELSE Len(sessions) + 1
              IN  /\ Len(R.sessions) = IF had THEN Len(sessions) ELSE Len(sessions) + 1
                  /\ R.accepted = IF had THEN accepted ELSE Append(accepted, sid)
                  /\ DOMAIN R.by_token = DOMAIN by_token \cup {token}
                  /\ R.by_token[token] = sid
                  /\ \A k \in 1..config.num_shards :
                        /\ Lookup(R, ClientAddrs[k]) = sid
                        /\ R.sessions[sid].locked_addrs.map[k - 1] = ClientAddrs[k]

\* a client holds a resume token that has no session yet, the listener runs, and the
\* 8 ClientResume datagrams of connect_udp give it one session that all 8 addresses
\* look up to
C21_Witness ==
    /\ actor = "running"
    /\ \E token \in issued :
          /\ token \notin DOMAIN by_token
          /\ Len(ResumeShards(Cur, token, UdpShards).sessions) = Len(sessions) + 1
          /\ \A k \in 1..UdpShards :
                Lookup(ResumeShards(Cur, token, UdpShards), ClientAddrs[k])
                    = Len(sessions) + 1

\* C22: the fallthrough limiter gates only the handshake decode of a buffer that
\* matched a session of the table.  (a) A datagram from an address that looks up to a
\* session is offered to the input of the session whatever the limiter says, it takes a
\* cell if there is one, and it is decoded as a handshake (a datagram with new bytes
\* that a c2s key opens is then in the replay filter) only if there was a cell; if not,
\* nothing but the input queue has changed.  (b) A datagram from an address that
\* looks up to no session is decoded, and the limiter is as before.
C22_LimiterGatesDecodeOnly ==
    actor = "running" =>
        \A addr \in Addrs, buffer \in FreshBuffers :
            LET sid == Lookup(Cur, addr)
                R == HandleItem(Cur, buffer, addr)
                opens == \E key \in CookieKeys : PadDecryptV1(key, buffer).ok
                decoded == Bytes(buffer) \in R.filter
            IN  IF sid # NoSess
                THEN /\ R.sessions[sid].input = TrySend(Cur, sid, buffer).sessions[sid].input
                     /\ ~sessions[sid].dropped /\ Len(sessions[sid].input) < SessionInputCap
                            => R.sessions[sid].input = Append(sessions[sid].input, Bytes(buffer))
                     /\ R.limiter = LimiterTake(limiter, addr)
                     /\ decoded <=> opens /\ limiter[addr] < FallthroughQuota
                     /\ limiter[addr] >= FallthroughQuota =>
                            Untouched(Cur, R) /\ R.filter = filter /\ R.limiter = limiter
                ELSE /\ R.limiter = limiter
                     /\ decoded <=> opens
                     /\ \A other \in DOMAIN sessions :
                            R.sessions[other].input = sessions[other].input

\* the limiter of a1 is used up and its session has got more packets than the
\* listener has decoded: packets reached the session while their decode was skipped
C22_Witness ==
    /\ actor = "running"
    /\ limiter["a1"] = FallthroughQuota
    /\ \E sid \in DOMAIN sessions :
          /\ Lookup(Cur, "a1") = sid
          /\ Decoded(sid) >= FallthroughQuota
          /\ Len(sessions[sid].input) > Decoded(sid) + 1

\* C23 (as the specification states it): the candidate c2s keys are tried in order,
\* and once one key decrypts the buffer no further key is tried for that buffer,
\* whether the decoded frame is then processed or rejected: a buffer that the i-th
\* key opens has been tried with i keys when the loop body is done with it.
C23_StopsAtFirstSuccess ==
    actor = "running" =>
        \A addr \in Addrs, buffer \in FreshBuffers, i \in DOMAIN C2SKeys :
            Decodes(Cur, addr) /\ PadDecryptV1(C2SKeys[i], buffer).ok =>
                HandleItem(Cur, buffer, addr).tried = i

\* datagrams of any content, with bytes seen before or not, under a c2s key, under a
\* key that is none, or under no key at all
AnyBuffers ==
    {ZeroLen, Garbage}
    \cup {PadEncryptV1(key, fs, id) :
            key \in PeerKeys \cup {S2CKey}, fs \in PeerVecs(AllPeers),
            id \in {1, Cardinality(filter), Cardinality(filter) + 1} \ {0}}

\* C24: the replay filter is consulted only after the buffer has decrypted under a
\* candidate key, and before any reply, table change or session creation.  A buffer
\* that no candidate key opens is never recorded in the filter; a buffer that a key
\* opens and that the listener goes on to decode is recorded, even if the match on its
\* frames then rejects it or fails; and if the filter knew its bytes, nothing is sent,
\* the table and the accept queue are as before and no secret is drawn.
C24_ReplayCheckOrder ==
    actor = "running" =>
        \A addr \in Addrs, buffer \in AnyBuffers :
            LET R == HandleItem(Cur, buffer, addr)
                opens == \E key \in CookieKeys : PadDecryptV1(key, buffer).ok
            IN  /\ ~opens => R.filter = filter
                /\ opens /\ Decodes(Cur, addr) => Bytes(buffer) \in R.filter
                /\ opens /\ Bytes(buffer) \in filter =>
                      Untouched(Cur, R) /\ R.filter = filter
                /\ R.filter \subseteq filter \cup {Bytes(buffer)}

\* the filter holds the bytes of handshakes the listener has acted on and of
\* datagrams it has rejected after the check: replays of either kind meet the filter
C24_Witness ==
    /\ actor = "running"
    /\ Len(sessions) = 1
    /\ Cardinality(filter) > eph + Len(sessions)
    /\ \E buffer \in AnyBuffers :
          /\ Bytes(buffer) \in filter
          /\ PadDecryptV1(C2SKeys[1], buffer).ok
          /\ Untouched(Cur, HandleItem(Cur, buffer, "a1"))

\* the listener state after a ClientHello of version v, in a datagram with new bytes
\* under the i-th candidate c2s key, from addr
HelloUnder(i, v, addr) ==
    HandleItem(Cur, FreshBuffer(C2SKeys[i], <<ClientHello(v)>>), addr)

\* C25: a ClientHello under any of the candidate c2s keys, the current epoch's or an
\* adjacent epoch's, is accepted (it is answered with one ServerHello that carries a
\* resume token of the listener), and the reply is sealed with the first s2c key,
\* the current epoch's: the listener does and sends the same whichever c2s key opened
\* the request.
C25_EpochTolerance ==
    actor = "running" =>
        \A i \in DOMAIN C2SKeys, addr \in Addrs, v \in {"1", "2", "3"} :
            Decodes(Cur, addr) =>
                /\ OneServerHello(HelloUnder(i, v, addr), addr)
                /\ HelloUnder(i, v, addr).sent[1].buffer.key = S2CKey
                /\ PadDecryptV1(S2CKey, HelloUnder(i, v, addr).sent[1].buffer).ok
                /\ TokenDecrypt(TokenKey, TokenOfReply(HelloUnder(i, v, addr))).ok
                /\ [HelloUnder(i, v, addr) EXCEPT !.tried = 0]
                      = [HelloUnder(1, v, addr) EXCEPT !.tried = 0]

\* the listener has answered one ClientHello and would answer the next one, sealed
\* with the last candidate key, with a second token under the s2c key
C25_Witness ==
    /\ actor = "running"
    /\ eph = 1
    /\ Cardinality(issued) = 1
    /\ sessions = <<>>
    /\ HelloUnder(Len(C2SKeys), "3", "a1").eph = 2
    /\ HelloUnder(Len(C2SKeys), "3", "a1").sent[1].buffer.key = S2CKey

\* the sessions the loop body has put on the accept queue from S to R
Emitted(S, R) == {R.accepted[i] : i \in (Len(S.accepted) + 1)..Len(R.accepted)}

\* C26: session creation is atomic with respect to the table.  Whatever datagram the
\* listener takes next, from whatever address: the sessions it emits to the accept
\* queue are new ones, as many as it has built and as many as by_token has new
\* entries (new_sess insertions); and at the moment a session is emitted by_token
\* holds its token with its input sender, by_addr maps the source address of the
\* ClientResume to that token, and lookup of that address finds the session.
C26_AtomicCreation ==
    actor = "running" =>
        \A addr \in Addrs, buffer \in AnyBuffers :
            LET R == HandleItem(Cur, buffer, addr)
            IN  /\ SubSeq(R.accepted, 1, Len(accepted)) = accepted
                /\ Cardinality(Emitted(Cur, R)) = Len(R.accepted) - Len(accepted)
                /\ Cardinality(Emitted(Cur, R)) = Len(R.sessions) - Len(sessions)
                /\ Cardinality(Emitted(Cur, R))
                      = Cardinality((DOMAIN R.by_token) \ (DOMAIN by_token))
                /\ \A sid \in Emitted(Cur, R) :
                      /\ sid \in (DOMAIN R.sessions) \ (DOMAIN sessions)
                      /\ R.sessions[sid].resume_token \in DOMAIN R.by_token
                      /\ R.by_token[R.sessions[sid].resume_token] = sid
                      /\ addr \in DOMAIN R.by_addr
                      /\ R.by_addr[addr] = R.sessions[sid].resume_token
                      /\ Lookup(R, addr) = sid

\* a session waits in the accept queue, its token is in by_token and an address is
\* bound to it
C26_Witness ==
    /\ actor = "running"
    /\ accepted # <<>>
    /\ sessions[accepted[1]].resume_token \in DOMAIN by_token
    /\ by_token[sessions[accepted[1]].resume_token] = accepted[1]
    /\ \E a \in DOMAIN by_addr : by_addr[a] = sessions[accepted[1]].resume_token

\* the listener state after a client with the secrets cl, ce has sent a ClientHello of
\* version v from addr, and after it has then sent, from addr2 and once the listener
\* has answered `between` further ClientHellos, a ClientResume with the token it got
HelloOfClient(cl, ce, v, addr) ==
    HandleItem(Cur, FreshBuffer(C2SKeys[1], <<ClientHelloOf(cl, ce, v)>>), addr)
RECURSIVE MoreHellos(_, _, _)
MoreHellos(S, between, addr) ==
    IF between = 0 THEN S
    ELSE MoreHellos(ThenItem(S, PadEncryptV1(C2SKeys[1], <<ClientHello("1")>>,
                                             Cardinality(filter) + 2 + between), addr),
                    between - 1, addr)
ResumeOfClient(cl, ce, v, addr, between, sh, addr2) ==
    ThenItem(MoreHellos(HelloOfClient(cl, ce, v, addr), between, addr),
             PadEncryptV1(C2SKeys[1],
                          <<ClientResume(TokenOfReply(HelloOfClient(cl, ce, v, addr)), sh)>>,
                          Cardinality(filter) + 2),
             addr2)

\* C27: the session created on a ClientResume is derived from the decrypted token
\* alone.  Its version is the version of the ClientHello that produced the token; its
\* key material is the sess_key of that Hello, the key the client computes from the
\* ServerHello; the directions mirror the client's: the listener's session sends under
\* the DN subkey and receives under the UP subkey, with the legacy and with the NG
\* crypter; and the session is the same whatever the listener has done since it gave
\* the token out.  Every session the table has ever held agrees with its token.
C27_StatelessReconstruction ==
    /\ \A sid \in DOMAIN sessions :
          LET tokinfo == TokenDecrypt(TokenKey, sessions[sid].resume_token)
          IN  /\ tokinfo.ok
              /\ sessions[sid].version = tokinfo.info.version
              /\ sessions[sid].send_crypt_legacy = KeyedHash("dn", tokinfo.info.sess_key)
              /\ sessions[sid].send_crypt_ng = KeyedHash("dn", tokinfo.info.sess_key)
              /\ sessions[sid].recv_crypt_legacy = KeyedHash("up", tokinfo.info.sess_key)
              /\ sessions[sid].recv_crypt_ng = KeyedHash("up", tokinfo.info.sess_key)
    /\ actor = "running" =>
          \A addr \in Addrs, addr2 \in Addrs, cl \in ClientSecrets, ce \in ClientSecrets,
             v \in {"1", "2", "3"}, sh \in Shards, between \in {0, 1} :
              LET H == HelloOfClient(cl, ce, v, addr)
                  R == ResumeOfClient(cl, ce, v, addr, between, sh, addr2)
                  sid == Len(sessions) + 1
                  sess_key == ClientKey(cl, ce, H.sent[1].buffer)
              IN  Lookup(Cur, addr) = NoSess /\ Lookup(Cur, addr2) = NoSess =>
                      /\ Len(R.sessions) = sid
                      /\ R.sessions[sid].version = v
                      /\ R.sessions[sid].send_crypt_legacy = KeyedHash("dn", sess_key)
                      /\ R.sessions[sid].send_crypt_ng = KeyedHash("dn", sess_key)
                      /\ R.sessions[sid].recv_crypt_legacy = KeyedHash("up", sess_key)
                      /\ R.sessions[sid].recv_crypt_ng = KeyedHash("up", sess_key)
                      /\ R.sessions[sid]
                            = ResumeOfClient(cl, ce, v, addr, 0, sh, addr2).sessions[sid]

\* the table holds a session made from a token the listener gave out for a
\* ClientHello of version 3: its keys are the subkeys of the key the client computes
C27_Witness ==
    \E sid \in DOMAIN sessions :
        /\ sessions[sid].resume_token \in issued
        /\ sessions[sid].version = "3"
        /\ sessions[sid].send_crypt_ng =
              KeyedHash("dn", TripleEcdh(ClientLongSk, ClientEphSk, PublicKey(LongSk),
                                         PublicKey(EphSk(sessions[sid].resume_token.nonce))))
        /\ sessions[sid].recv_crypt_legacy =
              KeyedHash("up", TripleEcdh(ClientLongSk, ClientEphSk, PublicKey(LongSk),
                                         PublicKey(EphSk(sessions[sid].resume_token.nonce))))

\* the datagrams, with bytes seen before or not, that carry a ClientResume with a token
\* the listener gave out
ResumeBuffers ==
    {PadEncryptV1(C2SKeys[1], <<ClientResume(t, sh)>>, id) :
        t \in issued, sh \in Shards, id \in {Cardinality(filter), Cardinality(filter) + 1}}

\* C28: at most one live session per resume token.  No two sessions that are alive
\* have the same token, and by_token gives each token one session and no session to two
\* tokens.  Whatever ClientResume the listener takes next: a session is built (new_sess
\* is called) only for a token that by_token does not hold; and every entry of by_token
\* stays as it is: it keeps its input sender (the session and what its queue holds,
\* to which the datagram can only be appended) and its ShardedAddrs, in which a
\* ClientResume sets one shard and leaves the others and the rotation alone.
C28_OneSessionPerToken ==
    /\ \A s1 \in DOMAIN sessions, s2 \in DOMAIN sessions :
          /\ ~sessions[s1].dropped
          /\ ~sessions[s2].dropped
          /\ sessions[s1].resume_token = sessions[s2].resume_token
          => s1 = s2
    /\ \A t \in DOMAIN by_token :
          /\ by_token[t] \in DOMAIN sessions
          /\ sessions[by_token[t]].resume_token = t
    /\ actor = "running" =>
          \A addr \in Addrs, buffer \in ResumeBuffers :
              LET R == HandleItem(Cur, buffer, addr)
              IN  /\ \A sid \in (DOMAIN R.sessions) \ (DOMAIN sessions) :
                        R.sessions[sid].resume_token \notin DOMAIN by_token
                  /\ \A t \in DOMAIN by_token :
                        LET old == sessions[by_token[t]]
                            new == R.sessions[by_token[t]]
                        IN  /\ t \in DOMAIN R.by_token
                            /\ R.by_token[t] = by_token[t]
                            /\ new.input \in {old.input, Append(old.input, Bytes(buffer))}
                            /\ [new EXCEPT !.input = <<>>, !.locked_addrs = FreedAddrs]
                                  = [old EXCEPT !.input = <<>>, !.locked_addrs = FreedAddrs]
                            /\ new.locked_addrs.index = old.locked_addrs.index
                            /\ DOMAIN old.locked_addrs.map \subseteq DOMAIN new.locked_addrs.map
                            /\ \E sh \in Shards :
                                  \A other \in (DOMAIN new.locked_addrs.map) \ {sh} :
                                      /\ other \in DOMAIN old.locked_addrs.map
                                      /\ new.locked_addrs.map[other] = old.locked_addrs.map[other]

\* a token whose first session was reaped has its second session, which is alive and
\* is the one by_token holds
C28_Witness ==
    \E s1 \in DOMAIN sessions, s2 \in DOMAIN sessions :
        /\ s1 < s2
        /\ sessions[s1].resume_token = sessions[s2].resume_token
        /\ sessions[s1].dropped
        /\ ~sessions[s2].dropped
        /\ sessions[s2].resume_token \in DOMAIN by_token
        /\ by_token[sessions[s2].resume_token] = s2

\* C29: no dangling address entries.  In every state the listener reaches by session
\* creations, rebinds (of a shard of a token to a new address, of an address from one
\* token to another) and reaps, every by_addr entry maps to a token that by_token
\* holds; so after delete(t) no by_addr entry maps to t.
C29_NoDanglingAddr ==
    \A a \in DOMAIN by_addr : by_addr[a] \in DOMAIN by_token

\* the addresses in the ShardedAddrs of the entry of token t
AddrsOf(S, t) ==
    {S.sessions[S.by_token[t]].locked_addrs.map[sh] :
        sh \in DOMAIN S.sessions[S.by_token[t]].locked_addrs.map}

\* C30: reaping one session never unbinds another.  If address a was first bound to
\* token t1 (it is among the addresses of t1) and later rebound to another live token
\* t2 (by_addr maps it to t2), then delete(t1) leaves by_addr[a] pointing to t2, and
\* lookup(a) still returns the input sender of t2.
C30_ReapKeepsOthers ==
    \A t1 \in DOMAIN by_token, t2 \in DOMAIN by_token, a \in DOMAIN by_addr :
        t1 # t2 /\ a \in AddrsOf(Cur, t1) /\ by_addr[a] = t2 =>
            /\ a \in DOMAIN Delete(Cur, t1).by_addr
            /\ Delete(Cur, t1).by_addr[a] = t2
            /\ Lookup(Delete(Cur, t1), a) = by_token[t2]

\* the versions the check of line 186 lets pass
GoodVersions == {"1", "2", "3"}

\* C31: every session emitted to the accept queue has version 1, 2 or 3.  Every
\* session the listener has built has such a version, and every token it has given
\* out holds one.  Whatever datagram it takes next: the tokens it sends hold such a
\* version and the sessions it emits have one.  And of a ClientHello of any version,
\* followed by a ClientResume with the token of the reply if there is one: a version
\* that fails the check gets no reply, hence no token; one that passes gets a token
\* with that version, and the session made from it has that version.
C31_SessionVersions ==
    /\ \A sid \in DOMAIN sessions : sessions[sid].version \in GoodVersions
    /\ \A token \in issued :
          /\ TokenDecrypt(TokenKey, token).ok
          /\ TokenDecrypt(TokenKey, token).info.version \in GoodVersions
    /\ actor = "running" =>
          /\ \A addr \in Addrs, buffer \in AnyBuffers :
                LET R == HandleItem(Cur, buffer, addr)
                IN  /\ \A token \in TokensOf(R.sent) :
                          TokenDecrypt(TokenKey, token).info.version \in GoodVersions
                    /\ \A sid \in Emitted(Cur, R) :
                          R.sessions[sid].version \in GoodVersions
          /\ \A addr \in Addrs, v \in Versions, sh \in Shards :
                LET H == HelloOfClient(ClientLongSk, ClientEphSk, v, addr)
                IN  Lookup(Cur, addr) = NoSess =>
                        IF v \in GoodVersions
                        THEN LET R == ResumeOfClient(ClientLongSk, ClientEphSk, v,
                                                     addr, 0, sh, addr)
                             IN  /\ Len(H.sent) = 1
                                 /\ TokenDecrypt(TokenKey, TokenOfReply(H)).info.version = v
                                 /\ Emitted(H, R) = {Len(sessions) + 1}
                                 /\ R.sessions[Len(sessions) + 1].version = v
                        ELSE /\ H.sent = <<>>
                             /\ H.eph = eph
                             /\ H.sessions = sessions
                             /\ H.accepted = accepted

\* a session of version 3 waits in the accept queue, and the listener has since
\* recorded a datagram for which it gave out no token and built no session
C31_Witness ==
    /\ actor = "running"
    /\ accepted # <<>>
    /\ sessions[accepted[1]].version = "3"
    /\ Cardinality(filter) > eph + Len(sessions)

\* C32: no inbound datagram can terminate the listener.  A handshake packet that
\* decrypts under a c2s key to an empty sequence of frames is dropped like any other
\* invalid packet: the listener runs on, with its table, its accept queue and its
\* secrets as they were and nothing sent, and it handles the datagram that comes next.
C32_EmptyFramesDropped ==
    actor = "running" =>
        \A addr \in Addrs, key \in CookieKeys, later \in LaterBuffers :
            LET R == HandleItem(Cur, FreshBuffer(key, <<>>), addr)
            IN  Decodes(Cur, addr) =>
                    /\ R.actor = "running"
                    /\ Untouched(Cur, R)
                    /\ ThenItem(R, later, addr).actor = "running"

\* init_time_ms values of tokens: the time of the model and a day away from it
TokenTimes == {NowMs, NowMs + 86400000}

\* the token the listener seals, with the nonce of token, for the TokenInfo of token
\* at the time ms
TokenAt(token, ms) ==
    TokenEncrypt([TokenDecrypt(TokenKey, token).info EXCEPT !.init_time_ms = ms],
                 TokenKey, token.nonce)

\* C33: resume tokens are neither single-use nor expiring.  A token the listener has
\* given out, at whatever time, and that by_token does not hold (it was never used, or
\* its session was reaped by delete), in a ClientResume in a datagram not seen before
\* that the listener decodes, creates a session and emits it to the accept queue; the
\* session has the session key and the version in the token, which are those of every
\* session the token had before.
C33_TokensReusable ==
    actor = "running" =>
        \A token \in issued, ms \in TokenTimes, addr \in Addrs, sh \in Shards :
            LET t == TokenAt(token, ms)
                R == HandleItem(Cur, FreshBuffer(C2SKeys[1], <<ClientResume(t, sh)>>), addr)
                sid == Len(sessions) + 1
            IN  t \notin DOMAIN by_token /\ Decodes(Cur, addr) =>
                    /\ Len(R.sessions) = sid
                    /\ R.accepted = Append(accepted, sid)
                    /\ R.sessions[sid].resume_token = t
                    /\ R.sessions[sid].send_crypt_ng
                          = KeyedHash("dn", TokenDecrypt(TokenKey, token).info.sess_key)
                    /\ R.sessions[sid].recv_crypt_ng
                          = KeyedHash("up", TokenDecrypt(TokenKey, token).info.sess_key)
                    /\ t \in DOMAIN R.by_token
                    /\ Lookup(R, addr) = sid
                    /\ \A old \in DOMAIN sessions :
                          sessions[old].resume_token = token =>
                              /\ R.sessions[sid].send_crypt_ng = sessions[old].send_crypt_ng
                              /\ R.sessions[sid].recv_crypt_ng = sessions[old].recv_crypt_ng
                              /\ R.sessions[sid].version = sessions[old].version

\* the session of a token was dropped and reaped, and a ClientResume with the token
\* has made a second session with the keys of the first, which waits to be accepted
C33_Witness ==
    \E s1 \in DOMAIN sessions :
        /\ accepted # <<>>
        /\ s1 < accepted[1]
        /\ sessions[s1].dropped
        /\ sessions[s1].locked_addrs = FreedAddrs
        /\ sessions[accepted[1]].resume_token = sessions[s1].resume_token
        /\ sessions[accepted[1]].send_crypt_ng = sessions[s1].send_crypt_ng
        /\ recv_dead = <<>>

====
